---- MODULE Spec2Model ----
(***************************************************************************)
(* A model of shards.fetcher: the Fetcher (semaphore, lazily created       *)
(* session, retry loop around one attempt), the materialization of a       *)
(* response into a Resource, and the Decompressor.                         *)
(*                                                                         *)
(* The asyncio scheduler is cooperative: one action of the model is what   *)
(* one task executes between two suspension points (an await that really   *)
(* suspends: a contended semaphore, a request, a sleep, session.close()).  *)
(***************************************************************************)
EXTENDS Integers, Sequences, FiniteSets, TLC

\* ---- bounds of the model ----
NumCalls == 2          \* fetch calls issued on the one Fetcher
MaxConcurrency == 2    \* largest configured concurrency limit
MaxRetries == 2        \* largest configured retries value
MaxAttempts == MaxRetries + 2   \* cap on attempts when retries is never hit
MaxBodyLen == 2        \* longest response body of the materialization cases
NumClosers == 1        \* aclose() calls that can be suspended at once

Calls == 1..NumCalls

\* Optional values: None is the empty tuple, Some(x) the one-element tuple.
None == <<>>
Some(x) == <<x>>

Urls == {"http://a", "http://b"}
StreamTargets == {None, Some(""), Some("out.bin")}
\* the (url, method, stream_to) of the fetch calls
FetchArgs ==
    { [url |-> "http://a", method |-> "GET", stream_to |-> None],
      [url |-> "http://b", method |-> "POST", stream_to |-> Some("out.bin")],
      [url |-> "http://b", method |-> "PUT", stream_to |-> None] }
\* exceptions an attempt can raise while its request is in flight, and
\* their str(): aiohttp.ClientError, asyncio.TimeoutError (str() is empty),
\* aiohttp.InvalidURL (a ValueError)
ErrTypes == {"ClientError", "TimeoutError", "ValueError"}
StrOf(type) ==
    IF type = "ClientError" THEN "connection reset"
    ELSE IF type = "TimeoutError" THEN ""
    ELSE "invalid url"
Bytes == {0, 31, 120}
GZIP_MAGIC == 31
ZLIB_MAGIC == 120
\* trailer bytes of an encoded buffer are TRAILER_BASE + length of payload
TRAILER_BASE == 200
\* values of the Content-Encoding header
Encodings == {"", "gzip", "GZIP", "deflate", "br"}
CHUNK_SIZE == 8192
\* delay_base of the retry loop, in seconds
delay_base == 1
\* response bodies of the fetch calls
FetchBodies == {<<>>, <<1>>}

VARIABLES
    concurrency,   \* Fetcher(concurrency=...)
    retries,       \* self.retries
    semaphore,     \* self.semaphore._value
    session,       \* self.session: 0 is None, n >= 1 the n-th ClientSession
    closed,        \* the ClientSessions whose .closed is True
    created,       \* number of ClientSessions constructed so far
    pc,            \* position of every fetch call
    args,          \* arguments of every fetch call
    attempt,       \* local variable attempt of _fetch_with_retries
    fails,         \* retriable failures raised by the attempts of a call
    sleeps,        \* backoff sleeps started by a call
    requests,      \* session.get / session.post calls issued by a call
    result,        \* what the call returned or raised
    lastExc,       \* the exception most recently raised in the call
    closing,       \* aclose() calls suspended in session.close()
    aexit,         \* position of the aclose() of __aexit__
    lastAclose,    \* session state at entry and at return of the last aclose()
    scope,         \* the async-with scope of the Fetcher
    exc,           \* exception raised inside the scope body
    propagated,    \* exception seen by the caller of the scope
    fr_in,         \* input of Resource.from_response (materialization cases)
    fr_out,        \* its outcome
    delays,        \* durations of the backoff sleeps started by a call
    sent,          \* the requests a call passed to session.get / session.post
    kwargs,        \* the data and json arguments of every fetch call
    waiters,       \* self.semaphore._waiters: the calls blocked in acquire()
    waited,        \* the calls that were blocked in acquire()
    sync,          \* the caller uses sync_fetch (TRUE) or awaits fetch
    loop,          \* the event loop the calls run in: the n-th one created
    loopOf,        \* the event loop every ClientSession was created in
    dc_in,         \* arguments of decompress (decompression cases)
    dc_out,        \* its outcome
    disk,          \* content of the stream target "out.bin" on disk
    fh,            \* per call: position of its open file object, -1 if none
    rest,          \* per call: bytes of the body not yet delivered
    held,          \* per call: chunks delivered and not yet dealt with
    hashed,        \* per call: bytes fed to the sha256 of the attempt
    written        \* per call: bytes passed to f.write by the attempt

\* the variables the fetch calls, aclose() and the scope leave alone
streamVars == <<disk, fh, rest, held, hashed, written>>
extraVars == <<dc_in, dc_out, sync, loop, streamVars, kwargs>>
gateVars == <<waiters, waited>>

vars == <<concurrency, retries, semaphore, session, closed, created, pc, args,
          attempt, fails, sleeps, requests, lastExc, result, closing, aexit,
          lastAclose, scope, exc, propagated, fr_in, fr_out, extraVars,
          delays, loopOf, sent, gateVars>>

fetcherVars == <<concurrency, retries, semaphore, session, closed, created,
                 pc, args, attempt, fails, sleeps, requests, lastExc, result,
                 closing, aexit, lastAclose, scope, exc, propagated>>

\* ---------------------------------------------------------------------
\* Decompressor (decompress.py).  gzip and zlib are library codecs: an
\* encoded buffer is the magic byte of the format, the payload and a
\* trailer that depends on the payload (its length, as in gzip's ISIZE);
\* on anything else the codec raises.
\* ---------------------------------------------------------------------
Trailer(b) == TRAILER_BASE + Len(b)

\* gzip.compress, zlib.compress
gzip_compress(b) == <<GZIP_MAGIC>> \o b \o <<Trailer(b)>>
zlib_compress(b) == <<ZLIB_MAGIC>> \o b \o <<Trailer(b)>>

Payload(data) == SubSeq(data, 2, Len(data) - 1)

gzip_valid(data) ==
    /\ Len(data) >= 2
    /\ data[1] = GZIP_MAGIC
    /\ data[Len(data)] = Trailer(Payload(data))
zlib_valid(data) ==
    /\ Len(data) >= 2
    /\ data[1] = ZLIB_MAGIC
    /\ data[Len(data)] = Trailer(Payload(data))

\* what a call returns (raised is FALSE) or that it raised
Returns(value) == [raised |-> FALSE, value |-> value]
Raises == [raised |-> TRUE, value |-> <<>>]

\* gzip.decompress, zlib.decompress
gzip_decompress(data) ==
    IF gzip_valid(data) THEN Returns(Payload(data)) ELSE Raises
zlib_decompress(data) ==
    IF zlib_valid(data) THEN Returns(Payload(data)) ELSE Raises

decompress_try_swapped(data, encoding, is_chunked) ==
    IF is_chunked THEN Returns(data)
    ELSE IF encoding = "gzip" THEN zlib_decompress(data)
    ELSE IF encoding = "deflate" THEN gzip_decompress(data)
    ELSE Returns(data)

decompress_try_label_first(data, encoding, is_chunked) ==
    IF encoding = "gzip" THEN gzip_decompress(data)
    ELSE IF encoding = "deflate" THEN zlib_decompress(data)
    ELSE Returns(data)

\* the try block of decompress
decompress_try(data, encoding, is_chunked) ==
    IF is_chunked THEN Returns(data)
    ELSE IF encoding = "gzip" THEN gzip_decompress(data)
    ELSE IF encoding = "deflate" THEN zlib_decompress(data)
    ELSE Returns(data)

decompress_unguarded(data, encoding, is_chunked) ==
    decompress_try(data, encoding, is_chunked)

\* decompress: "except Exception: return data"
decompress(data, encoding, is_chunked) ==
    LET r == decompress_try(data, encoding, is_chunked)
    IN  IF r.raised THEN Returns(data) ELSE r

\* hashlib.sha256: update() folds the bytes into the running state,
\* hexdigest() reads it out.
HashMod == 1000003
sha256_new == 7
RECURSIVE sha256_update(_, _)
sha256_update(h, chunk) ==
    IF chunk = <<>> THEN h
    ELSE sha256_update((h * 131 + Head(chunk) + 1) % HashMod, Tail(chunk))
hexdigest(h) == h

\* the SHA-256 digest of a byte string, taken in one piece
Sha256Of(bytes) == hexdigest(sha256_update(sha256_new, bytes))

\* ---------------------------------------------------------------------
\* Resource (resource.py)
\* ---------------------------------------------------------------------
\* "if stream_to:" tests truthiness: None and "" take the buffered path
Truthy(stream_to) == stream_to # None /\ stream_to[1] # ""

\* resp.read() and decompress(raw, encoding)
read_and_decompress(resp, encoding) == decompress(resp.body, encoding, FALSE)

RECURSIVE stream_and_hash_rehash(_, _, _)
stream_and_hash_rehash(chunks, h, file) ==
    IF chunks = <<>> THEN [hash |-> h, file |-> file]
    ELSE stream_and_hash_rehash(Tail(chunks),
                                sha256_update(sha256_new, Head(chunks)),
                                file \o Head(chunks))

\* the with-block of _stream_and_hash: every chunk updates the hash and is
\* written to the file; returns the final hash state and the file content
RECURSIVE stream_and_hash(_, _, _)
stream_and_hash(chunks, h, file) ==
    IF chunks = <<>> THEN [hash |-> h, file |-> file]
    ELSE stream_and_hash(Tail(chunks), sha256_update(h, Head(chunks)),
                         file \o Head(chunks))

\* resp.content.iter_chunked(n): the ways the body can arrive, cut into
\* consecutive non-empty chunks of at most n bytes
RECURSIVE iter_chunked(_, _)
iter_chunked(body, n) ==
    IF body = <<>> THEN {<<>>}
    ELSE UNION { { <<SubSeq(body, 1, k)>> \o t :
                     t \in iter_chunked(SubSeq(body, k + 1, Len(body)), n) } :
                 k \in 1..(IF Len(body) <= n THEN Len(body) ELSE n) }

\* str.lower() on the header values of the model
Lower(encoding) == IF encoding = "GZIP" THEN "gzip" ELSE encoding

\* ---------------------------------------------------------------------
\* FetchError (exceptions.py) and the other ways a call can end
\* ---------------------------------------------------------------------
NoResult == [kind |-> "none", url |-> "", message |-> "",
             content |-> None, file_path |-> None, hash |-> 0, file |-> None]

\* an exception that leaves fetch as it is
Raised(kind) == [NoResult EXCEPT !.kind = kind]

\* a Resource with the fields the model follows
NewResource(url, content, hash, file_path, file) ==
    [kind |-> "Resource", url |-> url, message |-> "", content |-> content,
     file_path |-> file_path, hash |-> hash, file |-> file]

from_response_both(url, resp, stream_to) ==
    LET encoding == Lower(resp.encoding)
        streamed == stream_and_hash(resp.chunks, sha256_new, <<>>)
        decoded == read_and_decompress(resp, encoding)
    IN  NewResource(url, Some(decoded.value),
                    IF Truthy(stream_to) THEN hexdigest(streamed.hash)
                    ELSE hexdigest(sha256_update(sha256_new, decoded.value)),
                    IF Truthy(stream_to) THEN stream_to ELSE None,
                    IF Truthy(stream_to) THEN Some(streamed.file) ELSE None)

from_response_rawhash(url, resp, stream_to) ==
    LET encoding == Lower(resp.encoding)
        streamed == stream_and_hash(resp.chunks, sha256_new, <<>>)
        decoded == read_and_decompress(resp, encoding)
    IN  IF Truthy(stream_to)
        THEN NewResource(url, None, hexdigest(streamed.hash), stream_to,
                         Some(streamed.file))
        ELSE IF decoded.raised THEN Raised("DecodeError")
        ELSE NewResource(url, Some(decoded.value),
                         hexdigest(sha256_update(sha256_new, resp.body)),
                         None, None)

\* Resource.from_response, for a response that delivers resp.body to
\* read() and resp.chunks to iter_chunked(); file is what the target holds
\* when the with-block is left
from_response(url, resp, stream_to) ==
    LET encoding == Lower(resp.encoding)
        streamed == stream_and_hash(resp.chunks, sha256_new, <<>>)
        decoded == read_and_decompress(resp, encoding)
    IN  IF Truthy(stream_to)
        THEN NewResource(url, None, hexdigest(streamed.hash), stream_to,
                         Some(streamed.file))
        ELSE IF decoded.raised THEN Raised("DecodeError")
        ELSE NewResource(url, Some(decoded.value),
                         hexdigest(sha256_update(sha256_new, decoded.value)),
                         None, None)

FetchError_nourl(url, message) ==
    [NoResult EXCEPT !.kind = "FetchError", !.message = message]

\* FetchError(url, message): self.url, self.message
FetchError(url, message) ==
    [NoResult EXCEPT !.kind = "FetchError", !.url = url, !.message = message]

NoExc == [type |-> "", msg |-> ""]
Exc(type, msg) == [type |-> type, msg |-> msg]

\* the exceptions the "except Exception" clause of the retry loop takes
Retriable == {"ClientError", "TimeoutError", "AttributeError", "RuntimeError"}

\* ---------------------------------------------------------------------
\* Fetcher (core.py)
\* ---------------------------------------------------------------------
\* positions of a call that holds a slot: awaiting the response, in a
\* backoff sleep, and inside the loop of _stream_and_hash
Holding == {"request", "sleep", "stream", "hash", "write"}
Holders == {c \in Calls : pc[c] \in Holding}
InFlight == {c \in Calls : pc[c] \in Holding \cup {"acquire"}}

\* Fetcher.__init__ with the given configuration
InitFetcher(conc, retr) ==
    /\ concurrency = conc
    /\ retries = retr
    /\ semaphore = conc
    /\ session = 0
    /\ closed = {}
    /\ created = 0
    /\ pc = [c \in Calls |-> "idle"]
    /\ args = [c \in Calls |-> [url |-> "", method |-> "GET", stream_to |-> None]]
    /\ attempt = [c \in Calls |-> 0]
    /\ fails = [c \in Calls |-> 0]
    /\ sleeps = [c \in Calls |-> 0]
    /\ requests = [c \in Calls |-> 0]
    /\ lastExc = [c \in Calls |-> NoExc]
    /\ result = [c \in Calls |-> NoResult]
    /\ closing = 0
    /\ aexit = "idle"
    /\ lastAclose = [pre |-> "never", ret |-> 0]
    /\ scope = "none"
    /\ exc = "none"
    /\ propagated = "none"

\* no decompression case
\* no file is open and the stream target does not exist or is empty
InitStreams ==
    /\ disk = <<>>
    /\ fh = [c \in Calls |-> -1]
    /\ rest = [c \in Calls |-> <<>>]
    /\ held = [c \in Calls |-> <<>>]
    /\ hashed = [c \in Calls |-> <<>>]
    /\ written = [c \in Calls |-> <<>>]

\* fetch called without data and without json
NoBody == [data |-> None, json |-> None]

InitExtra ==
    /\ delays = [c \in Calls |-> <<>>]
    /\ sent = [c \in Calls |-> {}]
    /\ waiters = <<>>
    /\ waited = {}
    /\ kwargs = [c \in Calls |-> NoBody]
    /\ sync = FALSE
    /\ loop = 1
    /\ loopOf = <<>>
    /\ dc_in = None
    /\ dc_out = None
    /\ InitStreams

\* a Fetcher with a positive concurrency limit and a positive retries value
Init ==
    /\ \E conc \in 1..MaxConcurrency, retr \in 1..MaxRetries :
          InitFetcher(conc, retr)
    /\ fr_in = None
    /\ fr_out = NoResult
    /\ InitExtra

\* asyncio.Semaphore: acquire() proceeds while the value is positive
CanAcquire_nonneg(value) == value >= 0
CanAcquire(value) == value > 0

\* asyncio.Semaphore.release(), run by "async with" on every exit path
Release_lost(value) == value
Release(value) == value + 1

\* the test of _ensure_session
NeedsSession_always(s, cl) == TRUE
NeedsSession(s, cl) == s = 0 \/ s \in cl

\* the test of aclose
AcloseCloses(s, cl) == s # 0 /\ s \notin cl

\* session.close()
CloseSession_noop(cl, s) == cl
CloseSession(cl, s) == cl \cup {s}

\* the value aclose assigns to self.session after closing
AcloseRef_kept(s) == s
AcloseRef(s) == 0

\* the method dispatch of _fetch_once
Supported_any(method) == TRUE
Supported(method) == method \in {"GET", "POST"}

\* "if attempt == self.retries" of the retry loop
GiveUp_early(n, r) == n + 1 >= r
GiveUp_late(n, r) == n > r
GiveUp(n, r) == n = r

OnRetriable_always_sleeps(c, n, e) ==
    [pc |-> "sleep", fail |-> 1, req |-> 0, exc |-> e, res |-> NoResult]

OnRetriable_stale_message(c, n, e) ==
    IF GiveUp(n, retries)
    THEN [pc |-> "done", fail |-> 1, req |-> 0, exc |-> e,
          res |-> FetchError(args[c].url,
                             IF lastExc[c] = NoExc THEN e.msg
                             ELSE lastExc[c].msg)]
    ELSE [pc |-> "sleep", fail |-> 1, req |-> 0, exc |-> e, res |-> NoResult]

\* the "except Exception" branch: give up or go to sleep
OnRetriable(c, n, e) ==
    IF GiveUp(n, retries)
    THEN [pc |-> "done", fail |-> 1, req |-> 0, exc |-> e,
          res |-> FetchError(args[c].url, e.msg)]
    ELSE [pc |-> "sleep", fail |-> 1, req |-> 0, exc |-> e, res |-> NoResult]

\* "except ValueError": no retry, no sleep
OnValueError(c, e) ==
    [pc |-> "done", fail |-> 0, req |-> 0, exc |-> e,
     res |-> FetchError(args[c].url, e.msg)]

\* the except clauses of the retry loop, for an exception e of an attempt
OnException(c, n, e) ==
    IF e.type = "ValueError" THEN OnValueError(c, e)
    ELSE OnRetriable(c, n, e)

\* the event loop a ClientSession works in is the one that ran when it was
\* constructed (a session constructed in this step: the running loop)
SessionLoop(s) == IF s \in DOMAIN loopOf THEN loopOf[s] ELSE loop

\* One turn of the while loop up to its first suspension: attempt += 1 and
\* _fetch_once up to the await of session.get / session.post.  s is the
\* value of self.session and cl the closed sessions at that moment.
AttemptStart(c, s, cl) ==
    LET n == attempt[c] + 1
    IN  IF ~Supported(args[c].method)
        THEN OnException(c, n, Exc("ValueError", "Unsupported HTTP method"))
        ELSE IF s = 0
        THEN OnException(c, n, Exc("AttributeError", "NoneType has no attribute"))
        ELSE IF s \in cl
        THEN OnException(c, n, Exc("RuntimeError", "Session is closed"))
        ELSE IF SessionLoop(s) # loop
        THEN OnException(c, n, Exc("RuntimeError", "Event loop is closed"))
        ELSE [pc |-> "request", fail |-> 0, req |-> 1, exc |-> lastExc[c],
              res |-> NoResult]

\* the argument of asyncio.sleep after the failure of attempt n
Backoff_from_base(n) == delay_base * (2 ^ (n - 1))
Backoff(n) == delay_base * (2 ^ n)

\* the headers _fetch_once sends when the caller passes none
DEFAULT_HEADERS == "User-Agent, Accept-Encoding: gzip, deflate"

\* the request _fetch_once passes to the session for call c:
\* session.get(url, headers=headers) or session.post(url, headers=headers).
\* fetch hands url, method, stream_to and headers on to the retry loop;
\* data and json stop in fetch.
Request_with_body(c) ==
    [method |-> args[c].method, url |-> args[c].url,
     headers |-> DEFAULT_HEADERS,
     body |-> IF kwargs[c].json # None THEN kwargs[c].json
              ELSE kwargs[c].data]
Request(c) ==
    [method |-> args[c].method, url |-> args[c].url,
     headers |-> DEFAULT_HEADERS, body |-> None]

\* the effect of a step r of call c, which leaves attempt at n, on the call
\* and on the semaphore, whose value before the step is sem
Apply(c, r, sem, n) ==
    /\ pc' = [pc EXCEPT ![c] = r.pc]
    /\ attempt' = [attempt EXCEPT ![c] = n]
    /\ fails' = [fails EXCEPT ![c] = @ + r.fail]
    /\ requests' = [requests EXCEPT ![c] = @ + r.req]
    /\ sleeps' = [sleeps EXCEPT ![c] = @ + (IF r.pc = "sleep" THEN 1 ELSE 0)]
    /\ lastExc' = [lastExc EXCEPT ![c] = r.exc]
    /\ result' = [result EXCEPT ![c] = r.res]
    /\ delays' = [delays EXCEPT ![c] = IF r.pc = "sleep"
                                       THEN Append(@, Backoff(n)) ELSE @]
    /\ sent' = [sent EXCEPT ![c] = IF r.req = 1
                                   THEN @ \cup {Request(c)} ELSE @]
    /\ semaphore' = IF r.pc = "done" THEN Release(sem) ELSE sem

\* a caller issues fetch(url, method, stream_to): the coroutine is created
Call(c, a) ==
    /\ pc[c] = "idle"
    /\ \A d \in Calls : d < c => pc[d] # "idle"
    /\ scope \in {"none", "body"}
    /\ pc' = [pc EXCEPT ![c] = "acquire"]
    /\ args' = [args EXCEPT ![c] = a]
    /\ UNCHANGED <<concurrency, retries, semaphore, session, closed, created,
                   attempt, fails, sleeps, requests, lastExc, result, closing,
                   aexit, lastAclose, scope, exc, propagated, fr_in, fr_out,
                   extraVars, loopOf, delays, sent, gateVars>>

\* asyncio.Semaphore.locked(): no slot is free or a call is blocked.
\* release() adds one to the value and _wake_up_next takes it again on
\* behalf of the first blocked call; here the value keeps the slot until
\* that call resumes, and only that call may take it.
locked(value, q) == ~CanAcquire(value) \/ q # <<>>

\* acquire() of a call that finds the semaphore locked:
\* self._waiters.append(fut)
Enqueue_front(q, c) == <<c>> \o q
Enqueue(q, c) == Append(q, c)

\* the call a free slot goes to: any call that runs acquire() while nothing
\* is blocked, else the first of the deque
IsNext(c, q) == IF q = <<>> THEN TRUE ELSE Head(q) = c

\* the calls of the deque
Blocked == {waiters[i] : i \in DOMAIN waiters}

\* fetch: "async with self.semaphore" of a call that finds the semaphore
\* locked: the call joins the deque and suspends
Wait(c) ==
    /\ pc[c] = "acquire"
    /\ c \notin Blocked
    /\ locked(semaphore, waiters)
    /\ waiters' = Enqueue(waiters, c)
    /\ waited' = waited \cup {c}
    /\ UNCHANGED <<concurrency, retries, semaphore, session, closed, created,
                   pc, args, attempt, fails, sleeps, requests, lastExc,
                   result, closing, aexit, lastAclose, scope, exc, propagated,
                   fr_in, fr_out, extraVars, loopOf, delays, sent>>

\* fetch: "async with self.semaphore", _ensure_session and the first turn
\* of the retry loop, up to the first await that suspends
Acquire(c, ok) ==
    /\ pc[c] = "acquire"
    /\ CanAcquire(semaphore)
    /\ IsNext(c, waiters)
    /\ waiters' = IF waiters = <<>> THEN waiters ELSE Tail(waiters)
    /\ waited' = waited
    /\ IF NeedsSession(session, closed)
       THEN IF ok
            THEN /\ created' = created + 1
                 /\ session' = created + 1
                 /\ loopOf' = Append(loopOf, loop)
                 /\ Apply(c, AttemptStart(c, created + 1, closed),
                          semaphore - 1, attempt[c] + 1)
            ELSE \* aiohttp.ClientSession(...) raises
                 /\ UNCHANGED <<created, session, loopOf>>
                 /\ Apply(c, [pc |-> "done", fail |-> 0, req |-> 0,
                              exc |-> Exc("SessionError", "no session"),
                              res |-> Raised("SessionError")],
                          semaphore - 1, attempt[c])
       ELSE /\ ok
            /\ UNCHANGED <<created, session, loopOf>>
            /\ Apply(c, AttemptStart(c, session, closed),
                     semaphore - 1, attempt[c] + 1)
    /\ UNCHANGED <<concurrency, retries, closed, args, closing, aexit,
                   lastAclose, scope, exc, propagated, fr_in, fr_out,
                   extraVars>>

\* the awaited request and Resource.from_response of an attempt succeed
RequestOk(c, body) ==
    /\ pc[c] = "request"
    /\ \E chunks \in iter_chunked(body, CHUNK_SIZE) :
          Apply(c, [pc |-> "done", fail |-> 0, req |-> 0, exc |-> lastExc[c],
                    res |-> from_response(args[c].url,
                                          [body |-> body, encoding |-> "",
                                           chunks |-> chunks],
                                          args[c].stream_to)],
                semaphore, attempt[c])
    /\ UNCHANGED <<concurrency, retries, session, closed, created, args,
                   closing, aexit, lastAclose, scope, exc, propagated, fr_in,
                   fr_out, extraVars, loopOf, gateVars>>

\* the awaited request or the materialization of an attempt raises
RequestFails(c, type) ==
    /\ pc[c] = "request"
    /\ Apply(c, OnException(c, attempt[c], Exc(type, StrOf(type))),
             semaphore, attempt[c])
    /\ UNCHANGED <<concurrency, retries, session, closed, created, args,
                   closing, aexit, lastAclose, scope, exc, propagated, fr_in,
                   fr_out, extraVars, loopOf, gateVars>>

\* asyncio.sleep returns: the next turn of the while loop
SleepDone(c) ==
    /\ pc[c] = "sleep"
    /\ attempt[c] < MaxAttempts
    /\ Apply(c, AttemptStart(c, session, closed), semaphore, attempt[c] + 1)
    /\ UNCHANGED <<concurrency, retries, session, closed, created, args,
                   closing, aexit, lastAclose, scope, exc, propagated, fr_in,
                   fr_out, extraVars, loopOf, gateVars>>

\* the task running fetch is cancelled at a suspension point:
\* CancelledError is a BaseException, no except clause of the loop takes it
Cancel(c) ==
    /\ pc[c] \in {"acquire", "request", "sleep"}
    /\ pc' = [pc EXCEPT ![c] = "done"]
    /\ lastExc' = [lastExc EXCEPT ![c] = Exc("CancelledError", "")]
    /\ result' = [result EXCEPT ![c] = Raised("CancelledError")]
    /\ semaphore' = IF pc[c] \in Holding THEN Release(semaphore) ELSE semaphore
    /\ UNCHANGED <<concurrency, retries, session, closed, created, args,
                   attempt, fails, sleeps, requests, closing, aexit,
                   lastAclose, scope, exc, propagated, fr_in, fr_out,
                   extraVars, loopOf, delays, sent, gateVars>>

\* __aenter__: returns self, the body of "async with Fetcher() as f" starts
AEnter ==
    /\ scope = "none"
    /\ \A c \in Calls : pc[c] = "idle"
    /\ scope' = "body"
    /\ UNCHANGED <<concurrency, retries, semaphore, session, closed, created,
                   pc, args, attempt, fails, sleeps, requests, lastExc,
                   result, closing, aexit, lastAclose, exc, propagated, fr_in,
                   fr_out, extraVars, loopOf, delays, sent, gateVars>>

\* the session state the test of aclose finds
PreOf(s, cl) == IF s = 0 THEN "none" ELSE IF s \in cl THEN "closed" ELSE "open"

\* a caller invokes fetcher.aclose(), up to its first suspension.  With no
\* open session the test fails and aclose returns at once; otherwise
\* session.close() marks the session closed and suspends.
Aclose ==
    /\ IF AcloseCloses(session, closed)
       THEN /\ closing < NumClosers
            /\ closed' = CloseSession(closed, session)
            /\ closing' = closing + 1
            /\ UNCHANGED lastAclose
       ELSE /\ lastAclose' = [pre |-> PreOf(session, closed), ret |-> session]
            /\ UNCHANGED <<closed, closing>>
    /\ UNCHANGED <<concurrency, retries, semaphore, session, created, pc,
                   args, attempt, fails, sleeps, requests, lastExc, result,
                   aexit, scope, exc, propagated, fr_in, fr_out, extraVars,
                   loopOf, delays, sent, gateVars>>

\* session.close() has returned: "self.session = None", aclose returns
AcloseEnd ==
    /\ closing > 0
    /\ closing' = closing - 1
    /\ session' = AcloseRef(session)
    /\ lastAclose' = [pre |-> "open", ret |-> AcloseRef(session)]
    /\ UNCHANGED <<concurrency, retries, semaphore, closed, created, pc, args,
                   attempt, fails, sleeps, requests, lastExc, result, aexit,
                   scope, exc, propagated, fr_in, fr_out, extraVars, loopOf,
                   delays, sent, gateVars>>

\* the exception the body of the scope can end with: none, the FetchError
\* of a fetch awaited in the body, or any other exception
ExitKinds ==
    {"none", "Other"} \cup
    (IF \E c \in Calls : pc[c] = "done" /\ result[c].kind = "FetchError"
     THEN {"FetchError"} ELSE {})

\* the body of the scope ends (every fetch awaited in it has ended) and
\* __aexit__ awaits aclose
AExit(kind) ==
    /\ scope = "body"
    /\ InFlight = {}
    /\ kind \in ExitKinds
    /\ exc' = kind
    /\ IF AcloseCloses(session, closed)
       THEN /\ closed' = CloseSession(closed, session)
            /\ aexit' = "closing"
            /\ scope' = "exiting"
            /\ UNCHANGED <<lastAclose, propagated>>
       ELSE /\ lastAclose' = [pre |-> PreOf(session, closed), ret |-> session]
            /\ scope' = "exited"
            /\ propagated' = kind
            /\ UNCHANGED <<closed, aexit>>
    /\ UNCHANGED <<concurrency, retries, semaphore, session, created, pc,
                   args, attempt, fails, sleeps, requests, lastExc, result,
                   closing, fr_in, fr_out, extraVars, loopOf, delays, sent,
                   gateVars>>

\* the aclose of __aexit__ returns; __aexit__ returns None, so the
\* exception of the body propagates
AExitEnd ==
    /\ aexit = "closing"
    /\ aexit' = "idle"
    /\ session' = AcloseRef(session)
    /\ lastAclose' = [pre |-> "open", ret |-> AcloseRef(session)]
    /\ scope' = "exited"
    /\ propagated' = exc
    /\ UNCHANGED <<concurrency, retries, semaphore, closed, created, pc, args,
                   attempt, fails, sleeps, requests, lastExc, result, closing,
                   exc, fr_in, fr_out, extraVars, loopOf, delays, sent,
                   gateVars>>

\* Fetch calls on a Fetcher that is never closed.
Next ==
    \/ \E c \in Calls, a \in FetchArgs : Call(c, a)
    \/ \E c \in Calls, ok \in BOOLEAN : Acquire(c, ok)
    \/ \E c \in Calls, body \in FetchBodies : RequestOk(c, body)
    \/ \E c \in Calls, type \in ErrTypes : RequestFails(c, type)
    \/ \E c \in Calls : SleepDone(c)
    \/ \E c \in Calls : Cancel(c)

Spec == Init /\ [][Next]_vars

\* The session lifecycle: GET calls and aclose() calls on one Fetcher, in
\* any interleaving.
SessionArgs == {a \in FetchArgs : a.method = "GET"}

NextSession ==
    \/ \E c \in Calls, a \in SessionArgs : Call(c, a)
    \/ \E c \in Calls, ok \in BOOLEAN : Acquire(c, ok)
    \/ \E c \in Calls, body \in FetchBodies : RequestOk(c, body)
    \/ \E c \in Calls : RequestFails(c, "ClientError")
    \/ \E c \in Calls : SleepDone(c)
    \/ Aclose
    \/ AcloseEnd

SpecSession == Init /\ [][NextSession]_vars

\* The Fetcher used as a scoped resource, "async with Fetcher() as f":
\* the default concurrency limit, the fetch calls issued in the body and
\* ended (returned, raised or cancelled) before the body ends.
ScopeArgs == {a \in FetchArgs : a.stream_to = None}

InitScope ==
    /\ \E retr \in 1..MaxRetries : InitFetcher(1, retr)
    /\ fr_in = None
    /\ fr_out = NoResult
    /\ InitExtra

NextScope ==
    \/ AEnter
    \/ \E c \in Calls, a \in ScopeArgs : scope = "body" /\ Call(c, a)
    \/ \E c \in Calls, ok \in BOOLEAN : Acquire(c, ok)
    \/ \E c \in Calls, body \in FetchBodies : RequestOk(c, body)
    \/ \E c \in Calls : RequestFails(c, "ClientError")
    \/ \E c \in Calls : SleepDone(c)
    \/ \E c \in Calls : Cancel(c)
    \/ \E kind \in {"none", "FetchError", "Other"} : AExit(kind)
    \/ AExitEnd

SpecScope == InitScope /\ [][NextScope]_vars

\* ---------------------------------------------------------------------
\* The materialization cases: Resource.from_response applied to every
\* response and stream target of the bounds.
\* ---------------------------------------------------------------------
RECURSIVE SeqsUpTo(_, _)
SeqsUpTo(S, n) ==
    IF n = 0 THEN {<<>>}
    ELSE LET shorter == SeqsUpTo(S, n - 1)
         IN  shorter \cup {Append(b, x) : b \in shorter, x \in S}

Bodies == SeqsUpTo(Bytes, MaxBodyLen)
\* the bodies of the cases: arbitrary bytes and validly encoded payloads
MatPayloads == SeqsUpTo(Bytes, MaxBodyLen - 1)
MatBodies ==
    Bodies \cup {gzip_compress(b) : b \in MatPayloads}
           \cup {zlib_compress(b) : b \in MatPayloads}

\* the responses: a Content-Encoding header, a body and a way it arrives
MatResponses ==
    UNION { { [body |-> b, encoding |-> e, chunks |-> ch] :
                e \in Encodings, ch \in iter_chunked(b, CHUNK_SIZE) } :
            b \in MatBodies }

InitMat ==
    /\ InitFetcher(1, 3)
    /\ fr_in \in {Some([url |-> u, resp |-> r, stream_to |-> st]) :
                   u \in Urls, r \in MatResponses, st \in StreamTargets}
    /\ fr_out = NoResult
    /\ InitExtra

\* Resource.from_response(url, resp, fetched_at, stream_to); opening the
\* target of the streaming path can raise OSError
FromResponse(opens) ==
    /\ fr_in # None
    /\ fr_out.kind = "none"
    /\ LET i == fr_in[1]
       IN  fr_out' = IF Truthy(i.stream_to) /\ ~opens
                     THEN Raised("OSError")
                     ELSE from_response(i.url, i.resp, i.stream_to)
    /\ UNCHANGED <<fetcherVars, fr_in, extraVars, loopOf, delays, sent,
                   gateVars>>

NextMat == \E opens \in BOOLEAN : FromResponse(opens)

SpecMat == InitMat /\ [][NextMat]_vars

\* The retry loop at length: a Fetcher whose retries value lets a call
\* fail and sleep several times, calls to both URLs, transport errors and
\* timeouts.
BackoffArgs == {a \in FetchArgs : Supported(a.method)}

InitBackoff ==
    /\ InitFetcher(MaxConcurrency, MaxAttempts)
    /\ fr_in = None
    /\ fr_out = NoResult
    /\ InitExtra

NextBackoff ==
    \/ \E c \in Calls, a \in BackoffArgs : Call(c, a)
    \/ \E c \in Calls : Acquire(c, TRUE)
    \/ \E c \in Calls, body \in FetchBodies : RequestOk(c, body)
    \/ \E c \in Calls, type \in {"ClientError", "TimeoutError"} :
          RequestFails(c, type)
    \/ \E c \in Calls : SleepDone(c)

SpecBackoff == InitBackoff /\ [][NextBackoff]_vars

\* ---------------------------------------------------------------------
\* The streaming path step by step: fetch calls that stream to the same
\* target, with the loop of _stream_and_hash followed chunk by chunk.
\* A call is at "stream" while it awaits the next chunk, at "hash" and
\* "write" while it deals with a chunk; between two awaits a task runs
\* alone.
\* ---------------------------------------------------------------------
StreamArgs ==
    {[url |-> "http://a", method |-> "GET", stream_to |-> Some("out.bin")]}

\* the body the server sends to call c: n bytes that name the call
BodyOf(c, n) == [i \in 1..n |-> c]

\* a task is between two awaits
Running == \E d \in Calls : pc[d] \in {"hash", "write"}

\* a file after f.write(chunk) at position off (a gap reads as zeros)
Overlay(file, off, chunk) ==
    LET end == off + Len(chunk)
        n == IF Len(file) > end THEN Len(file) ELSE end
    IN  [i \in 1..n |-> IF i > off /\ i <= end THEN chunk[i - off]
                        ELSE IF i <= Len(file) THEN file[i] ELSE 0]

\* path.open("wb"): the file object of an open in mode "wb"; the target
\* is created or truncated and no other opener is excluded
OpenWb(c) == TRUE

\* the content of the target once path.open("wb") has opened it
WbContent_kept(file) == file
WbContent(file) == <<>>

\* one turn of "async for chunk in resp.content.iter_chunked(CHUNK_SIZE)":
\* the next k bytes of the body arrive as the chunk
TakeChunk(r, k) ==
    [held |-> <<SubSeq(r, 1, k)>>, rest |-> SubSeq(r, k + 1, Len(r))]

\* the body of the loop: hash.update(chunk), then f.write(chunk)
Order_write_first == <<"write", "hash">>
Order == <<"hash", "write">>

\* the position after a statement of the loop body
After(step) == IF step = Order[1] THEN Order[2] ELSE "stream"

\* the response has arrived: from_response makes a new sha256 and
\* _stream_and_hash opens the target, up to the await of the first chunk
StreamOpen(c, n) ==
    /\ ~Running
    /\ pc[c] = "request"
    /\ Truthy(args[c].stream_to)
    /\ OpenWb(c)
    /\ pc' = [pc EXCEPT ![c] = "stream"]
    /\ disk' = WbContent(disk)
    /\ fh' = [fh EXCEPT ![c] = 0]
    /\ rest' = [rest EXCEPT ![c] = BodyOf(c, n)]
    /\ held' = [held EXCEPT ![c] = <<>>]
    /\ hashed' = [hashed EXCEPT ![c] = <<>>]
    /\ written' = [written EXCEPT ![c] = <<>>]
    /\ UNCHANGED <<concurrency, retries, semaphore, session, closed, created,
                   args, attempt, fails, sleeps, requests, lastExc, result,
                   closing, aexit, lastAclose, scope, exc, propagated, fr_in,
                   fr_out, dc_in, dc_out, sync, loop, delays, sent, loopOf,
                   kwargs, gateVars>>

\* the awaited chunk arrives
NextChunk(c, k) ==
    /\ ~Running
    /\ pc[c] = "stream"
    /\ k \in 1..Len(rest[c])
    /\ k <= CHUNK_SIZE
    /\ held' = [held EXCEPT ![c] = @ \o TakeChunk(rest[c], k).held]
    /\ rest' = [rest EXCEPT ![c] = TakeChunk(rest[c], k).rest]
    /\ pc' = [pc EXCEPT ![c] = Order[1]]
    /\ UNCHANGED <<concurrency, retries, semaphore, session, closed, created,
                   args, attempt, fails, sleeps, requests, lastExc, result,
                   closing, aexit, lastAclose, scope, exc, propagated, fr_in,
                   fr_out, dc_in, dc_out, sync, loop, delays, sent, loopOf,
                   disk, fh, hashed, written, kwargs, gateVars>>

\* the chunk is dropped when the body of the loop is through
HeldAfter(c, step) ==
    [held EXCEPT ![c] = IF After(step) = "stream" THEN Tail(@) ELSE @]

\* hash.update(chunk)
HashUpdate(c) ==
    /\ pc[c] = "hash"
    /\ hashed' = [hashed EXCEPT ![c] = @ \o held[c][1]]
    /\ pc' = [pc EXCEPT ![c] = After("hash")]
    /\ held' = HeldAfter(c, "hash")
    /\ UNCHANGED <<concurrency, retries, semaphore, session, closed, created,
                   args, attempt, fails, sleeps, requests, lastExc, result,
                   closing, aexit, lastAclose, scope, exc, propagated, fr_in,
                   fr_out, dc_in, dc_out, sync, loop, delays, sent, loopOf,
                   disk, fh, rest, written, kwargs, gateVars>>

\* f.write(chunk)
FileWrite(c) ==
    /\ pc[c] = "write"
    /\ disk' = Overlay(disk, fh[c], held[c][1])
    /\ fh' = [fh EXCEPT ![c] = @ + Len(held[c][1])]
    /\ written' = [written EXCEPT ![c] = @ \o held[c][1]]
    /\ pc' = [pc EXCEPT ![c] = After("write")]
    /\ held' = HeldAfter(c, "write")
    /\ UNCHANGED <<concurrency, retries, semaphore, session, closed, created,
                   args, attempt, fails, sleeps, requests, lastExc, result,
                   closing, aexit, lastAclose, scope, exc, propagated, fr_in,
                   fr_out, dc_in, dc_out, sync, loop, delays, sent, loopOf,
                   rest, hashed, kwargs, gateVars>>

\* the body is through: the with-block closes the file and from_response
\* returns the Resource
StreamEnd(c) ==
    /\ ~Running
    /\ pc[c] = "stream"
    /\ rest[c] = <<>>
    /\ fh' = [fh EXCEPT ![c] = -1]
    /\ Apply(c, [pc |-> "done", fail |-> 0, req |-> 0, exc |-> lastExc[c],
                 res |-> NewResource(args[c].url, None,
                                     Sha256Of(hashed[c]), args[c].stream_to,
                                     Some(written[c]))],
             semaphore, attempt[c])
    /\ UNCHANGED <<concurrency, retries, session, closed, created, args,
                   closing, aexit, lastAclose, scope, exc, propagated, fr_in,
                   fr_out, dc_in, dc_out, sync, loop, loopOf, disk, rest,
                   held, hashed, written, kwargs, gateVars>>

\* the connection breaks while a chunk is awaited: the with-block closes
\* the file and the exception reaches the retry loop
StreamFails(c) ==
    /\ ~Running
    /\ pc[c] = "stream"
    /\ fh' = [fh EXCEPT ![c] = -1]
    /\ Apply(c, OnException(c, attempt[c],
                            Exc("ClientError", StrOf("ClientError"))),
             semaphore, attempt[c])
    /\ UNCHANGED <<concurrency, retries, session, closed, created, args,
                   closing, aexit, lastAclose, scope, exc, propagated, fr_in,
                   fr_out, dc_in, dc_out, sync, loop, loopOf, disk, rest,
                   held, hashed, written, kwargs, gateVars>>

\* a Fetcher that lets several calls stream at once and does not retry
InitStream ==
    /\ InitFetcher(MaxConcurrency, 1)
    /\ fr_in = None
    /\ fr_out = NoResult
    /\ InitExtra

NextStream ==
    \/ \E c \in Calls, a \in StreamArgs : ~Running /\ Call(c, a)
    \/ \E c \in Calls : ~Running /\ Acquire(c, TRUE)
    \/ \E c \in Calls, n \in 0..MaxBodyLen : StreamOpen(c, n)
    \/ \E c \in Calls, k \in 1..MaxBodyLen : NextChunk(c, k)
    \/ \E c \in Calls : HashUpdate(c)
    \/ \E c \in Calls : FileWrite(c)
    \/ \E c \in Calls : StreamEnd(c)
    \/ \E c \in Calls : StreamFails(c)

SpecStream == InitStream /\ [][NextStream]_vars

\* ---------------------------------------------------------------------
\* The decompression cases: decompress applied to a payload as it is,
\* encoded, or encoded and cut short, under every label.
\* ---------------------------------------------------------------------
DecForms == {"raw", "gzip", "deflate", "gzip-truncated", "deflate-truncated"}

DropLast(data) == SubSeq(data, 1, Len(data) - 1)

\* the buffer of a case
Encode(form, b) ==
    IF form = "gzip" THEN gzip_compress(b)
    ELSE IF form = "deflate" THEN zlib_compress(b)
    ELSE IF form = "gzip-truncated" THEN DropLast(gzip_compress(b))
    ELSE IF form = "deflate-truncated" THEN DropLast(zlib_compress(b))
    ELSE b

InitDec ==
    /\ InitFetcher(1, 3)
    /\ fr_in = None
    /\ fr_out = NoResult
    /\ delays = [c \in Calls |-> <<>>]
    /\ sent = [c \in Calls |-> {}]
    /\ waiters = <<>>
    /\ waited = {}
    /\ kwargs = [c \in Calls |-> NoBody]
    /\ sync = FALSE
    /\ loop = 1
    /\ loopOf = <<>>
    /\ dc_in \in {Some([payload |-> b, form |-> f, data |-> Encode(f, b),
                        encoding |-> e, is_chunked |-> ch]) :
                   b \in Bodies, f \in DecForms, e \in Encodings,
                   ch \in BOOLEAN}
    /\ dc_out = None
    /\ InitStreams

\* decompress(data, encoding, is_chunked)
Decompress ==
    /\ dc_in # None
    /\ dc_out = None
    /\ dc_out' = Some(decompress(dc_in[1].data, dc_in[1].encoding,
                                 dc_in[1].is_chunked))
    /\ UNCHANGED <<fetcherVars, fr_in, fr_out, dc_in, sync, loop, delays,
                   sent, loopOf, streamVars, kwargs, gateVars>>

NextDec == Decompress

SpecDec == InitDec /\ [][NextDec]_vars

\* ---------------------------------------------------------------------
\* sync_fetch.  A caller outside any event loop makes its calls one after
\* the other, either all through sync_fetch or all by awaiting fetch in the
\* one event loop of its program.
\* ---------------------------------------------------------------------
\* no fetch call is in progress
Quiet == \A d \in Calls : pc[d] \in {"idle", "done"}

\* sync_fetch(url, ...): asyncio.run(self.fetch(...)) creates an event
\* loop, runs the fetch call in it to completion and closes the loop
SyncFetch(c, a) ==
    /\ sync
    /\ Quiet
    /\ pc[c] = "idle"
    /\ \A d \in Calls : d < c => pc[d] # "idle"
    /\ loop' = loop + 1
    /\ pc' = [pc EXCEPT ![c] = "acquire"]
    /\ args' = [args EXCEPT ![c] = a]
    /\ UNCHANGED <<concurrency, retries, semaphore, session, closed, created,
                   attempt, fails, sleeps, requests, lastExc, result, closing,
                   aexit, lastAclose, scope, exc, propagated, fr_in, fr_out,
                   dc_in, dc_out, sync, delays, sent, loopOf, streamVars,
                   kwargs, gateVars>>

\* "await fetcher.fetch(url, ...)" once the previous call has ended
AwaitFetch(c, a) ==
    /\ ~sync
    /\ Quiet
    /\ Call(c, a)

\* a Fetcher with the default concurrency limit, and the style of its caller
InitSync ==
    /\ \E retr \in 1..MaxRetries : InitFetcher(1, retr)
    /\ fr_in = None
    /\ fr_out = NoResult
    /\ delays = [c \in Calls |-> <<>>]
    /\ sent = [c \in Calls |-> {}]
    /\ waiters = <<>>
    /\ waited = {}
    /\ kwargs = [c \in Calls |-> NoBody]
    /\ sync \in BOOLEAN
    /\ loop = 1
    /\ loopOf = <<>>
    /\ dc_in = None
    /\ dc_out = None
    /\ InitStreams

NextSync ==
    \/ \E c \in Calls, a \in BackoffArgs : SyncFetch(c, a)
    \/ \E c \in Calls, a \in BackoffArgs : AwaitFetch(c, a)
    \/ \E c \in Calls : Acquire(c, TRUE)
    \/ \E c \in Calls, body \in FetchBodies : RequestOk(c, body)
    \/ \E c \in Calls, type \in {"ClientError", "TimeoutError"} :
          RequestFails(c, type)
    \/ \E c \in Calls : SleepDone(c)

SpecSync == InitSync /\ [][NextSync]_vars

\* ---------------------------------------------------------------------
\* Properties
\* ---------------------------------------------------------------------
Done(c) == pc[c] = "done"

\* C1: with concurrency limit C, at most C fetch calls are between slot
\* acquisition and completion (in the network phase of an attempt or in a
\* backoff sleep) in every reachable state, however many were issued.
C1_ConcurrencyCeiling ==
    /\ Cardinality(Holders) <= concurrency
    /\ semaphore >= 0

\* C1 witness: the limit is reached and one more call waits for a slot
C1_Witness ==
    /\ Cardinality(Holders) = concurrency
    /\ \E c \in Calls : pc[c] = "acquire"
    /\ \E c \in Calls : pc[c] = "request"

\* C2: a call whose attempts fail retriably k times and then succeed, with
\* k < retries, returns the Resource after exactly k + 1 attempts: it is
\* not given up while fewer than retries attempts have failed.
C2_RetryThenSuccess ==
    \A c \in Calls :
        /\ result[c].kind = "Resource" => Done(c) /\ attempt[c] = fails[c] + 1
        /\ fails[c] < retries =>
              ~(result[c].kind = "FetchError" /\ lastExc[c].type \in Retriable)
        /\ fails[c] < retries /\ pc[c] = "sleep" => attempt[c] = fails[c]

\* C2 witness: a Resource returned after a failed attempt and a sleep
C2_Witness ==
    \E c \in Calls :
        /\ Done(c) /\ result[c].kind = "Resource"
        /\ fails[c] >= 1 /\ attempt[c] = fails[c] + 1

\* C3: a call all of whose attempts fail retriably raises FetchError after
\* exactly retries attempts, never fewer and never more.
C3_Exhaustion ==
    \A c \in Calls :
        /\ attempt[c] <= retries
        /\ fails[c] = retries =>
              Done(c) /\ result[c].kind = "FetchError" /\ attempt[c] = retries
        /\ result[c].kind = "FetchError" /\ lastExc[c].type \in Retriable =>
              attempt[c] = retries /\ fails[c] = retries

\* C3 witness: retries = 2 and a call given up after its second failure
C3_Witness ==
    \E c \in Calls :
        /\ retries >= 2
        /\ Done(c) /\ result[c].kind = "FetchError"
        /\ fails[c] = retries /\ sleeps[c] = retries - 1

\* C4: a call with a method other than GET and POST makes one attempt,
\* which ends in FetchError, issues no HTTP request and never sleeps,
\* whatever retries is.
C4_UnsupportedMethod ==
    \A c \in Calls :
        (pc[c] # "idle" /\ args[c].method \notin {"GET", "POST"}) =>
            /\ requests[c] = 0
            /\ sleeps[c] = 0
            /\ attempt[c] <= 1
            /\ pc[c] \in {"acquire", "done"}
            /\ attempt[c] = 1 =>
                  /\ Done(c)
                  /\ result[c] = FetchError(args[c].url,
                                            "Unsupported HTTP method")
            /\ result[c].kind = "FetchError" => attempt[c] = 1

\* C4 witness: a PUT call ended in FetchError although retries >= 2
C4_Witness ==
    \E c \in Calls :
        /\ retries >= 2
        /\ args[c].method = "PUT"
        /\ Done(c) /\ result[c].kind = "FetchError" /\ attempt[c] = 1

\* a failure raised inside an attempt or a backoff sleep of the call (a
\* call cancelled while it waits for a slot, or whose session could not be
\* established, has made no attempt)
FailedInside(c) ==
    /\ Done(c)
    /\ result[c].kind # "Resource"
    /\ attempt[c] >= 1

\* C5 as stated: every failure of a fetch call raised inside an attempt or
\* a backoff sleep (input error, transport error, timeout, cancellation)
\* reaches the caller as a FetchError with the URL of the call.
C5_AllFailuresAreFetchError ==
    \A c \in Calls :
        FailedInside(c) =>
            result[c].kind = "FetchError" /\ result[c].url = args[c].url

\* C5 amended: an Exception raised inside an attempt (input error,
\* transport error, timeout) reaches the caller as FetchError(url, str(e));
\* a cancellation and a failure to establish the session reach the caller
\* unwrapped.
C5_ExceptionsWrapped ==
    \A c \in Calls :
        (Done(c) /\ result[c].kind # "Resource") =>
            /\ lastExc[c].type \in Retriable \cup {"ValueError"} =>
                  /\ result[c].kind = "FetchError"
                  /\ result[c].url = args[c].url
                  /\ result[c].message = lastExc[c].msg
            /\ lastExc[c].type \in {"CancelledError", "SessionError"} =>
                  result[c].kind = lastExc[c].type
            /\ lastExc[c].type # ""

\* C5 witness: one call ended in FetchError after a timeout, another one
\* was cancelled inside an attempt or a sleep
C5_Witness ==
    \E c, d \in Calls :
        /\ Done(c) /\ result[c].kind = "FetchError"
        /\ lastExc[c].type = "TimeoutError"
        /\ Done(d) /\ result[d].kind = "CancelledError" /\ attempt[d] >= 1

\* C6: the slot of a call is held from acquisition to the end of the call,
\* over all its attempts and sleeps, and is released on every exit path:
\* the free slots are the limit minus the calls in progress, and all of
\* them when no call is in progress.
C6_SlotAccounting ==
    /\ semaphore = concurrency - Cardinality(Holders)
    /\ InFlight = {} => semaphore = concurrency

\* C6 witness: no call in progress after a cancellation inside an attempt
\* and a FetchError
C6_Witness ==
    /\ InFlight = {}
    /\ \E c, d \in Calls :
          /\ Done(c) /\ result[c].kind = "CancelledError" /\ attempt[c] >= 1
          /\ Done(d) /\ result[d].kind = "FetchError" /\ sleeps[d] >= 1

\* C7 as stated: when aclose() returns the session reference is None,
\* whatever the session state at the call was.
C7_AcloseAlwaysResets ==
    lastAclose.pre # "never" => lastAclose.ret = 0

\* C7 amended: when aclose() returns the session reference is None if it
\* was None or referred to an open session at the call; if it referred to
\* a session that was already closed, aclose() leaves the reference set.
C7_AcloseResetsOpen ==
    /\ lastAclose.pre \in {"none", "open"} => lastAclose.ret = 0
    /\ lastAclose.pre = "closed" =>
          lastAclose.ret # 0 /\ lastAclose.ret \in closed

\* C7 witness: an aclose() that found an open session has returned
C7_Witness ==
    /\ lastAclose.pre = "open"
    /\ lastAclose.ret = 0
    /\ created >= 1

\* C8: no session exists after construction; a session is created only by
\* a fetch call that finds the reference None or the session closed, and
\* it is a fresh one on which the call issues its request; the reference
\* changes in no other way except that aclose() resets it.
C8_Step ==
    /\ created' # created =>
          /\ session = 0 \/ session \in closed
          /\ created' = created + 1
          /\ session' = created'
          /\ session' \notin closed'
    /\ session' # session => session' = 0 \/ created' = created + 1
    /\ (session' = 0 /\ session # 0) => closing' = closing - 1
    /\ \A c \in Calls :
          (pc[c] = "acquire" /\ pc'[c] = "request") =>
              session' # 0 /\ session' \notin closed'

C8_LazySession ==
    /\ session = 0 /\ created = 0
    /\ [][C8_Step]_vars

\* C8 witness: after an aclose() a fetch call created the second session
\* and returned a Resource
C8_Witness ==
    /\ created = 2
    /\ session = 2
    /\ session \notin closed
    /\ lastAclose.pre = "open"
    /\ \E c \in Calls : Done(c) /\ result[c].kind = "Resource"

\* C9: when the scope of "async with Fetcher() as f" is exited, no session
\* is open, and the exception of the body, if any, reaches the caller.
C9_Step ==
    (scope # "exited" /\ scope' = "exited") =>
        /\ \A s \in 1..created' : s \in closed'
        /\ session' = 0 \/ session' \in closed'
        /\ propagated' = exc'

C10_ExactlyOne ==
    fr_out.kind = "Resource" =>
        LET st == fr_in[1].stream_to
            streaming == st # None /\ st # Some("")
        IN  /\ (fr_out.content = None) # (fr_out.file_path = None)
            /\ streaming => fr_out.file_path = st /\ fr_out.content = None
            /\ ~streaming => fr_out.content # None /\ fr_out.file_path = None

\* C10 witness: a streamed Resource of a non-empty body
C10_Witness ==
    /\ fr_out.kind = "Resource"
    /\ fr_in[1].stream_to = Some("out.bin")
    /\ fr_in[1].resp.body # <<>>
    /\ fr_out.file_path # None

\* C11: a streamed Resource, for every body, every Content-Encoding and
\* every way the body arrives in chunks: the file holds the response body
\* byte for byte (nothing is decoded) and the digest is the SHA-256 of the
\* bytes written to the file.
C11_StreamedDigest ==
    (fr_out.kind = "Resource" /\ fr_out.file_path # None) =>
        /\ fr_out.file = Some(fr_in[1].resp.body)
        /\ fr_out.hash = Sha256Of(fr_out.file[1])

\* C11 witness: a gzip-encoded body, labelled gzip, streamed in two or
\* more chunks
C11_Witness ==
    /\ fr_out.kind = "Resource"
    /\ fr_out.file_path # None
    /\ fr_in[1].resp.encoding = "gzip"
    /\ gzip_valid(fr_in[1].resp.body)
    /\ Len(fr_in[1].resp.chunks) >= 2
    /\ fr_out.file = Some(fr_in[1].resp.body)

\* the bytes a buffered fetch is to expose for a body and a lower-cased
\* label: the payload p when the body is encode(label, p), the body itself
\* otherwise
Exposed(body, label) ==
    IF label = "gzip" /\ \E p \in MatPayloads : body = gzip_compress(p)
    THEN CHOOSE p \in MatPayloads : body = gzip_compress(p)
    ELSE IF label = "deflate" /\ \E p \in MatPayloads : body = zlib_compress(p)
    THEN CHOOSE p \in MatPayloads : body = zlib_compress(p)
    ELSE body

\* C12: a buffered Resource: the digest is the SHA-256 of the bytes in
\* content, and content is the decoded payload when the body is validly
\* encoded under the lower-cased Content-Encoding, the raw body when the
\* label is unsupported or decoding fails.
C12_BufferedDigest ==
    (fr_out.kind = "Resource" /\ fr_out.file_path = None) =>
        /\ fr_out.content # None
        /\ fr_out.hash = Sha256Of(fr_out.content[1])
        /\ fr_out.content[1] =
              Exposed(fr_in[1].resp.body,
                      IF fr_in[1].resp.encoding = "GZIP" THEN "gzip"
                      ELSE fr_in[1].resp.encoding)

\* C12 witness: a body decoded under the label "GZIP" to a non-empty payload
C12_Witness ==
    /\ fr_out.kind = "Resource"
    /\ fr_in[1].resp.encoding = "GZIP"
    /\ fr_out.content # None
    /\ fr_out.content[1] # <<>>
    /\ fr_in[1].resp.body = gzip_compress(fr_out.content[1])

\* C13: the sleep after the n-th failed attempt of a call lasts 2^n
\* seconds (2, then 4, then 8: the first is 2 and each is twice the one
\* before), whatever the error, the URL and the other calls are.
C13_BackoffDelays ==
    \A c \in Calls :
        /\ Len(delays[c]) = sleeps[c]
        /\ pc[c] = "sleep" => Len(delays[c]) = fails[c]
        /\ \A n \in 1..Len(delays[c]) :
              /\ n = 1 => delays[c][n] = 2
              /\ n = 2 => delays[c][n] = 4
              /\ n = 3 => delays[c][n] = 8
              /\ n > 1 => delays[c][n] = 2 * delays[c][n - 1]

\* C13 witness: a call has slept 2, 4 and 8 seconds while another call,
\* to the other URL, is in its first sleep after a different error
C13_Witness ==
    \E c, d \in Calls :
        /\ delays[c] = <<2, 4, 8>>
        /\ pc[d] = "sleep" /\ delays[d] = <<2>>
        /\ args[c].url # args[d].url
        /\ lastExc[c].type # lastExc[d].type

\* how a call awaited through fetch ends when the calls are made one after
\* the other: every attempt has issued its request, so the answers of the
\* network decide the outcome (a Resource after the failed answers, or the
\* FetchError of the last failed answer after retries attempts); the slot
\* is free again and the session is open
EndsAsFetch(c) ==
    /\ requests[c] = attempt[c]
    /\ sleeps[c] = attempt[c] - 1
    /\ delays[c] = [n \in 1..(attempt[c] - 1) |-> Backoff(n)]
    /\ result[c].kind = "Resource" => fails[c] = attempt[c] - 1
    /\ result[c].kind # "Resource" =>
          /\ attempt[c] = retries
          /\ lastExc[c].type \in {"ClientError", "TimeoutError"}
          /\ result[c] = FetchError(args[c].url, StrOf(lastExc[c].type))
    /\ Quiet => semaphore = concurrency
    /\ session # 0 /\ session \notin closed

\* C14: a call made through sync_fetch ends as the same call awaited
\* through fetch ends for the same answers of the network: the same
\* Resource or failure, after the same attempts and backoff sleeps, with
\* the same slot count and session state.
C14_SyncFetchAsFetch ==
    \A c \in Calls : Done(c) => EndsAsFetch(c)

\* C15: decompress(encode(E, b), E) = b for E = gzip and E = deflate and
\* every payload b, when is_chunked is false.
C15_RoundTrip ==
    (/\ dc_out # None
     /\ ~dc_in[1].is_chunked
     /\ dc_in[1].form \in {"gzip", "deflate"}
     /\ dc_in[1].encoding = dc_in[1].form) =>
        dc_out[1] = Returns(dc_in[1].payload)

\* C15 witness: a non-empty payload encoded with zlib and decoded under
\* the label deflate
C15_Witness ==
    /\ dc_out # None
    /\ ~dc_in[1].is_chunked
    /\ dc_in[1].form = "deflate" /\ dc_in[1].encoding = "deflate"
    /\ dc_in[1].payload # <<>>
    /\ dc_out[1].value = dc_in[1].payload

\* C16: decompress returns its input unchanged when is_chunked is true,
\* whatever the label and also for validly encoded data, and when the label
\* is not exactly "gzip" or "deflate".
C16_PassThrough ==
    (/\ dc_out # None
     /\ \/ dc_in[1].is_chunked
        \/ dc_in[1].encoding \notin {"gzip", "deflate"}) =>
        dc_out[1] = Returns(dc_in[1].data)

\* C16 witness: valid gzip data under the label gzip with is_chunked true
\* comes back encoded
C16_Witness ==
    /\ dc_out # None
    /\ dc_in[1].is_chunked
    /\ dc_in[1].form = "gzip" /\ dc_in[1].encoding = "gzip"
    /\ dc_out[1].value = dc_in[1].data
    /\ dc_out[1].value # dc_in[1].payload

\* C17: decompress never raises; data that is not a valid encoding under
\* the known label it is given (garbage, the other format, a truncated
\* buffer) comes back unchanged.
C17_NeverRaises ==
    dc_out # None =>
        /\ ~dc_out[1].raised
        /\ (/\ dc_in[1].encoding \in {"gzip", "deflate"}
            /\ dc_in[1].form # dc_in[1].encoding) =>
              dc_out[1].value = dc_in[1].data

\* C17 witness: a truncated gzip buffer under the label gzip
C17_Witness ==
    /\ dc_out # None
    /\ ~dc_in[1].is_chunked
    /\ dc_in[1].form = "gzip-truncated" /\ dc_in[1].encoding = "gzip"
    /\ Len(dc_in[1].data) >= 2
    /\ dc_out[1] = Returns(dc_in[1].data)

\* the calls that have the stream target open for writing
Writers == {c \in Calls : fh[c] # -1}

\* C18: the target is opened for exclusive writing: at most one in-flight
\* call has it open for writing at a time, so the file never holds bytes
\* of two bodies.
C18_ExclusiveTarget ==
    /\ Cardinality(Writers) <= 1
    /\ \A i, j \in DOMAIN disk : disk[i] = disk[j]

\* C19: in the loop of the streaming path a chunk is fed to the digest
\* first and written to the file second, and the next chunk is requested
\* only after both: where a chunk is awaited the bytes hashed equal the
\* bytes written and no chunk is held; where a chunk is being dealt with
\* it is the only one held, and it is hashed before it is written.
C19_ChunkByChunk ==
    \A c \in Calls :
        /\ Len(held[c]) <= 1
        /\ \A i \in 1..Len(held[c]) : Len(held[c][i]) <= CHUNK_SIZE
        /\ pc[c] = "stream" => held[c] = <<>> /\ hashed[c] = written[c]
        /\ pc[c] = "hash" => Len(held[c]) = 1 /\ hashed[c] = written[c]
        /\ pc[c] = "write" =>
              Len(held[c]) = 1 /\ hashed[c] = written[c] \o held[c][1]

\* C19 witness: the second chunk of a body is hashed and about to be
\* written while another call streams
C19_Witness ==
    \E c, d \in Calls :
        /\ c # d
        /\ pc[c] = "write"
        /\ written[c] # <<>>
        /\ hashed[c] = written[c] \o held[c][1]
        /\ pc[d] = "stream"

\* C20, the states: an attempt in progress is preceded by one sleep per
\* earlier attempt; a call sleeps only after a failed attempt that did not
\* reach the maximum; a call ended by its last attempt (a Resource, a
\* non-retriable failure, the failure that reaches the maximum) has made
\* one sleep less than attempts.
C20_Counts ==
    \A c \in Calls :
        /\ pc[c] = "request" => sleeps[c] = attempt[c] - 1
        /\ pc[c] = "sleep" =>
              /\ sleeps[c] = attempt[c]
              /\ fails[c] = attempt[c]
              /\ attempt[c] < retries
        /\ (Done(c) /\ result[c].kind \in {"Resource", "FetchError"}) =>
              sleeps[c] = attempt[c] - 1

\* C20, the steps: an attempt starts only when the call is not in an
\* attempt (at the slot for the first, at the end of a sleep for the
\* others), and a sleep starts only with the failure of an attempt.
C20_Step ==
    \A c \in Calls :
        /\ attempt'[c] # attempt[c] =>
              /\ attempt'[c] = attempt[c] + 1
              /\ pc[c] \in {"acquire", "sleep"}
              /\ pc[c] = "acquire" => attempt[c] = 0
        /\ sleeps'[c] # sleeps[c] =>
              /\ sleeps'[c] = sleeps[c] + 1
              /\ fails'[c] = fails[c] + 1
              /\ pc'[c] = "sleep"
        /\ (pc[c] = "request" /\ pc'[c] = "request") =>
              attempt'[c] = attempt[c]

\* C20: within one fetch call attempts and backoff sleeps alternate
\* strictly, attempts do not overlap, and no sleep follows the last
\* attempt: a call that makes a attempts performs a - 1 sleeps.
C20_Alternation == []C20_Counts /\ [][C20_Step]_vars

\* C20 witness: one call ended by a non-retriable failure in its second
\* attempt, another by the failure that reached the maximum, each with one
\* sleep
C20_Witness ==
    \E c, d \in Calls :
        /\ Done(c) /\ result[c].kind = "FetchError"
        /\ lastExc[c].type = "ValueError"
        /\ attempt[c] = 2 /\ sleeps[c] = 1
        /\ Done(d) /\ result[d].kind = "FetchError"
        /\ lastExc[d].type \in Retriable
        /\ attempt[d] = retries /\ sleeps[d] = retries - 1 /\ retries >= 2

\* ---------------------------------------------------------------------
\* The message of FetchError.  The transport fails attempt n with an error
\* that depends on n, so that successive attempts of a call raise errors of
\* different messages; a ValueError (aiohttp.InvalidURL) can end any attempt.

\* the retriable error the transport raises in attempt n
ErrAt(n) == IF n % 2 = 1 THEN "ClientError" ELSE "TimeoutError"

NextErr ==
    \/ \E c \in Calls, a \in FetchArgs : Call(c, a)
    \/ \E c \in Calls : Acquire(c, TRUE)
    \/ \E c \in Calls, body \in FetchBodies : RequestOk(c, body)
    \/ \E c \in Calls : RequestFails(c, ErrAt(attempt[c]))
    \/ \E c \in Calls : RequestFails(c, "ValueError")
    \/ \E c \in Calls : SleepDone(c)

SpecErr == Init /\ [][NextErr]_vars

\* the message str() gives the exception that ended the last attempt of a
\* call that raised FetchError
LastMessage(c) ==
    IF fails[c] = retries THEN StrOf(ErrAt(attempt[c]))
    ELSE IF Supported(args[c].method) THEN StrOf("ValueError")
    ELSE "Unsupported HTTP method"

\* C21: a FetchError carries the URL passed to fetch and the message of
\* the error of the last attempt: after the maximum number of failures the
\* message of the failure of attempt number retries, not of an earlier
\* attempt, and after a non-retriable error the message of that error.
C21_LastMessage ==
    \A c \in Calls :
        (Done(c) /\ result[c].kind = "FetchError") =>
            /\ result[c].url = args[c].url
            /\ result[c].message = LastMessage(c)
            /\ fails[c] = retries => attempt[c] = retries

\* C21 witness: a call gave up after two failures of different messages and
\* carries the second, another was ended by a ValueError after a retriable
\* failure and carries the message of the ValueError
C21_Witness ==
    \E c, d \in Calls :
        /\ Done(c) /\ result[c].kind = "FetchError"
        /\ fails[c] = 2 /\ retries = 2
        /\ StrOf(ErrAt(1)) # StrOf(ErrAt(2))
        /\ result[c].message = StrOf(ErrAt(2))
        /\ Done(d) /\ result[d].kind = "FetchError"
        /\ fails[d] = 1 /\ attempt[d] = 2
        /\ result[d].message = StrOf("ValueError")

\* ---------------------------------------------------------------------
\* The data and json arguments.  Every call is given some data / json
\* arguments when the model starts; the server answers a request by its URL
\* and the number of the attempt alone, so that two calls of the same url,
\* method and stream_to meet the same answers.

\* the data / json arguments a caller passes
KwArgs ==
    {NoBody, [data |-> Some("form"), json |-> None],
     [data |-> None, json |-> Some("doc")]}

\* the server fails the first request for http://a and answers the others
ServerFails(url, n) == url = "http://a" /\ n = 1

InitData ==
    /\ \E conc \in 1..MaxConcurrency, retr \in 1..MaxRetries :
          InitFetcher(conc, retr)
    /\ fr_in = None
    /\ fr_out = NoResult
    /\ delays = [c \in Calls |-> <<>>]
    /\ sent = [c \in Calls |-> {}]
    /\ waiters = <<>>
    /\ waited = {}
    /\ kwargs \in [Calls -> KwArgs]
    /\ sync = FALSE
    /\ loop = 1
    /\ loopOf = <<>>
    /\ dc_in = None
    /\ dc_out = None
    /\ InitStreams

NextData ==
    \/ \E c \in Calls, a \in FetchArgs : Call(c, a)
    \/ \E c \in Calls : Acquire(c, TRUE)
    \/ \E c \in Calls :
          /\ ~ServerFails(args[c].url, attempt[c])
          /\ RequestOk(c, <<1>>)
    \/ \E c \in Calls :
          /\ ServerFails(args[c].url, attempt[c])
          /\ RequestFails(c, "ClientError")
    \/ \E c \in Calls : SleepDone(c)

SpecData == InitData /\ [][NextData]_vars

IssuesRequest(c) ==
    /\ attempt'[c] = attempt[c] + 1
    /\ Supported(args[c].method)

\* C23: whenever an attempt of a fetch call issues its request, self.session
\* is set and that session is open, whatever aclose calls run between the
\* steps of the call, the session being ensured once, before the retry loop.
C23_SessionUsable ==
    [][\A c \in Calls :
          IssuesRequest(c) => (session' # 0 /\ session' \notin closed')]_vars

\* ---------------------------------------------------------------------
\* Termination of the retry loop.  The constructor stores retries as it is
\* given, so zero and negative values are values of the Fetcher too.  The
\* counters of a call are recorded up to MaxAttempts; a call whose loop
\* runs on after that keeps taking its turns with the counters left at the
\* bound (attempt has passed retries for good, the test of the loop can
\* not hold any more).

\* the least value of retries a Fetcher is constructed with here
MinRetries == -1

InitTerm ==
    /\ \E conc \in 1..MaxConcurrency, retr \in MinRetries..MaxRetries :
          InitFetcher(conc, retr)
    /\ fr_in = None
    /\ fr_out = NoResult
    /\ InitExtra

\* an attempt fails with a transport error while the counters are recorded
AttemptFails(c) ==
    /\ fails[c] < MaxAttempts
    /\ RequestFails(c, "ClientError")

\* asyncio.sleep returns and the next attempt reaches its request, for a
\* call whose attempt counter is at the bound
TurnBeyond(c) ==
    /\ pc[c] = "sleep"
    /\ attempt[c] = MaxAttempts
    /\ AttemptStart(c, session, closed).pc = "request"
    /\ pc' = [pc EXCEPT ![c] = "request"]
    /\ UNCHANGED <<concurrency, retries, semaphore, session, closed, created,
                   args, attempt, fails, sleeps, requests, lastExc, result,
                   closing, aexit, lastAclose, scope, exc, propagated, fr_in,
                   fr_out, extraVars, delays, loopOf, sent, gateVars>>

\* an attempt beyond the bound fails with a transport error: its number is
\* above MaxAttempts, the test "attempt == self.retries" is false and the
\* call sleeps again
FailsBeyond(c) ==
    /\ pc[c] = "request"
    /\ fails[c] = MaxAttempts
    /\ OnRetriable(c, MaxAttempts + 1, Exc("ClientError", StrOf("ClientError"))).pc
          = "sleep"
    /\ pc' = [pc EXCEPT ![c] = "sleep"]
    /\ UNCHANGED <<concurrency, retries, semaphore, session, closed, created,
                   args, attempt, fails, sleeps, requests, lastExc, result,
                   closing, aexit, lastAclose, scope, exc, propagated, fr_in,
                   fr_out, extraVars, delays, loopOf, sent, gateVars>>

\* what ends an attempt of call c, and what ends a backoff sleep of it
AttemptEnds(c) ==
    \/ \E body \in FetchBodies : RequestOk(c, body)
    \/ AttemptFails(c)
    \/ FailsBeyond(c)

SleepEnds(c) == SleepDone(c) \/ TurnBeyond(c)

NextTerm ==
    \/ \E c \in Calls, a \in BackoffArgs : Call(c, a)
    \/ \E c \in Calls : Acquire(c, TRUE)
    \/ \E c \in Calls, body \in FetchBodies : RequestOk(c, body)
    \/ \E c \in Calls : AttemptFails(c)
    \/ \E c \in Calls : FailsBeyond(c)
    \/ \E c \in Calls : SleepDone(c)
    \/ \E c \in Calls : TurnBeyond(c)

\* every attempt and every backoff sleep terminates
FairTerm ==
    \A c \in Calls : WF_vars(AttemptEnds(c)) /\ WF_vars(SleepEnds(c))

SpecTerm == InitTerm /\ [][NextTerm]_vars /\ FairTerm

\* C24: every attempt and every sleep terminating, a fetch call that holds
\* a slot eventually returns a Resource or raises FetchError, for every
\* integer retries the constructor accepts.
C24_Terminates ==
    \A c \in Calls : (pc[c] \in Holding) ~> Done(c)

\* ---------------------------------------------------------------------
\* Streaming with retries: a Fetcher of concurrency 1 whose calls stream to
\* one target, the connection breaking only after a part of the body has
\* been written, so that every failed attempt leaves bytes in the target.

\* the connection breaks after a first chunk has been written
StreamBreaks(c) ==
    /\ written[c] # <<>>
    /\ StreamFails(c)

InitRestream ==
    /\ \E retr \in 1..MaxRetries : InitFetcher(1, retr)
    /\ fr_in = None
    /\ fr_out = NoResult
    /\ InitExtra

NextRestream ==
    \/ \E c \in Calls, a \in StreamArgs : ~Running /\ Call(c, a)
    \/ \E c \in Calls : ~Running /\ Acquire(c, TRUE)
    \/ \E c \in Calls, n \in 0..MaxBodyLen : StreamOpen(c, n)
    \/ \E c \in Calls, k \in 1..MaxBodyLen : NextChunk(c, k)
    \/ \E c \in Calls : HashUpdate(c)
    \/ \E c \in Calls : FileWrite(c)
    \/ \E c \in Calls : StreamEnd(c)
    \/ \E c \in Calls : StreamBreaks(c)
    \/ \E c \in Calls : ~Running /\ SleepDone(c)

SpecRestream == InitRestream /\ [][NextRestream]_vars

\* call c returns the Resource of a streamed attempt in this step
StreamReturns(c) ==
    /\ pc[c] = "stream" /\ pc'[c] = "done"
    /\ result'[c].kind = "Resource"

\* C25: when a streaming call returns, after any number of failed attempts
\* that had written part of a body, the target holds exactly the bytes of
\* the attempt that succeeded and the digest of the Resource is the digest
\* of those bytes: nothing written or hashed by an earlier attempt, of this
\* call or of a call before it, is left.
C25_FreshTarget ==
    [][\A c \in Calls :
          StreamReturns(c) =>
              /\ rest[c] = <<>>
              /\ disk' = written[c]
              /\ hashed[c] = written[c]
              /\ result'[c].hash = hexdigest(Sha256Of(disk'))
              /\ result'[c].file = Some(disk')]_vars

\* C25 witness: a call has returned a Resource for an empty body after an
\* attempt that had written a byte and failed; the target is empty and
\* the digest is that of no bytes
C25_Witness ==
    \E c \in Calls :
        /\ Done(c) /\ result[c].kind = "Resource"
        /\ fails[c] >= 1 /\ attempt[c] = fails[c] + 1
        /\ written[c] = <<>> /\ disk = <<>>
        /\ result[c].hash = hexdigest(sha256_new)

\* ---------------------------------------------------------------------
\* The gate under contention: calls that find the semaphore locked join
\* its deque, and a caller that has had the result of a call issues the
\* next one, so that a blocked call meets new competitors for ever.

\* the caller of call c, which has ended, goes on to a further call
Again(c) ==
    /\ pc[c] = "done"
    /\ pc' = [pc EXCEPT ![c] = "idle"]
    /\ args' = [args EXCEPT ![c] = [url |-> "", method |-> "GET",
                                    stream_to |-> None]]
    /\ attempt' = [attempt EXCEPT ![c] = 0]
    /\ fails' = [fails EXCEPT ![c] = 0]
    /\ sleeps' = [sleeps EXCEPT ![c] = 0]
    /\ requests' = [requests EXCEPT ![c] = 0]
    /\ lastExc' = [lastExc EXCEPT ![c] = NoExc]
    /\ result' = [result EXCEPT ![c] = NoResult]
    /\ delays' = [delays EXCEPT ![c] = <<>>]
    /\ sent' = [sent EXCEPT ![c] = {}]
    /\ waited' = waited \ {c}
    /\ UNCHANGED <<concurrency, retries, semaphore, session, closed, created,
                   closing, aexit, lastAclose, scope, exc, propagated, fr_in,
                   fr_out, extraVars, loopOf, waiters>>

GateArgs == {a \in FetchArgs : a.method = "GET"}

NextGate ==
    \/ \E c \in Calls, a \in GateArgs : Call(c, a)
    \/ \E c \in Calls : Wait(c)
    \/ \E c \in Calls : Acquire(c, TRUE)
    \/ \E c \in Calls, body \in FetchBodies : RequestOk(c, body)
    \/ \E c \in Calls : RequestFails(c, "ClientError")
    \/ \E c \in Calls : SleepDone(c)
    \/ \E c \in Calls : Again(c)

\* the first run of the task of a call, and its run when it is woken
Enters(c) == Wait(c) \/ Acquire(c, TRUE)

\* what ends an attempt of a call that holds a slot
Answers(c) ==
    \/ \E body \in FetchBodies : RequestOk(c, body)
    \/ RequestFails(c, "ClientError")

\* the event loop runs every task that is ready, every request is answered
\* and every sleep ends
FairGate ==
    \A c \in Calls :
        /\ WF_vars(Enters(c))
        /\ WF_vars(Answers(c))
        /\ WF_vars(SleepDone(c))

SpecGate == Init /\ [][NextGate]_vars /\ FairGate

\* C26: under fair scheduling, every call that holds a slot ending, a call
\* that waits for a slot eventually acquires one and runs its first
\* attempt, whatever calls are issued meanwhile.
C26_NoStarvation ==
    \A c \in Calls :
        (pc[c] = "acquire") ~> (pc[c] = "request" /\ attempt[c] = 1)

\* C26 witness: a call that was blocked at the gate is in its first attempt
\* while a call issued later is blocked behind it
C26_Witness ==
    \E c, d \in Calls :
        /\ c \in waited /\ pc[c] = "request" /\ attempt[c] = 1
        /\ d # c /\ d \in Blocked
        /\ semaphore = 0

====
